---- MODULE Spec2Model ----
(***************************************************************************)
(* The mini compiler of src/21201181.py: recursive-descent parser, TAC     *)
(* generator with its module-level temp counter, ASM generator and the     *)
(* interpreter loop of main().                                             *)
(*                                                                         *)
(* Python strings are modelled as follows.  A token is a TLA+ string.  A   *)
(* TAC or ASM line, which the code builds with single spaces between       *)
(* tokens, is the sequence of its words (what line.split() returns); no    *)
(* token holds white space, so the two carry the same information.         *)
(***************************************************************************)
EXTENDS Integers, Sequences, FiniteSets, TLC

VARIABLES
    tokens,      \* Parser.tokens: the token list main() hands to the parser
    pc,          \* position of main(): parse, tac, asm, run, done, aborted
    err,         \* the exception that ended main(), NoError if none
    ast,         \* the list parse() returned
    temp_count,  \* the module-level counter of new_temp
    tac,         \* the list generate_TAC returned
    asm,         \* the list generate_ASM returned
    memory,      \* the dict of the interpreter loop
    printed,     \* the values the interpreter loop printed, in order
    ip,          \* index of the next TAC line of the interpreter loop
    runs         \* how many times main() was started in this process

vars == <<tokens, pc, err, ast, temp_count, tac, asm, memory, printed, ip, runs>>

-----------------------------------------------------------------------------
(* Bounds of the model *)

MaxStmts == 2
MaxTokens == 5
MaxExprLen == 5
MaxRuns == 2

-----------------------------------------------------------------------------
(* Tokens: what tokenize's pattern can produce, by class *)

\* peek()'s None; no token equals it (the lexer splits "<None>" into three)
None == "<None>"
NoError == "no error"
NoNode == [tag |-> "none"]

\* tokens str.isdigit() accepts, with int(tok) and str(n) on them
DigitTokens == {"0", "1", "2", "3", "4", "5"}

int(tok) ==
    CASE tok = "0" -> 0 [] tok = "1" -> 1 [] tok = "2" -> 2
      [] tok = "3" -> 3 [] tok = "4" -> 4 [] tok = "5" -> 5

str(n) == ToString(n)

\* tokens the identifier pattern [A-Za-z_]\w* matches
IdentTokens == {"let", "print", "PRINT", "abs", "a", "x", "y",
                "t1", "t2", "t3", "t4", "t5", "t6", "t7", "t8", "t9"}

isdigit(tok) == tok \in DigitTokens

\* re.match(r"[A-Za-z_]\w*", tok): a prefix match, which on a lexer token
\* succeeds exactly on the identifier tokens
re_match_ident(tok) == tok \in IdentTokens

-----------------------------------------------------------------------------
(* Parser *)

num(n) == [tag |-> "num", value |-> n]
var(name) == [tag |-> "var", name |-> name]
binop(op, left, right) == [tag |-> "binop", op |-> op, left |-> left, right |-> right]

peek(toks, pos) == IF pos < Len(toks) THEN toks[pos + 1] ELSE None

\* What a parser method does: it raises (err names the exception) or it
\* returns val and leaves the cursor at pos
Raise(e, pos) == [err |-> e, val |-> NoNode, pos |-> pos]
Return(val, pos) == [err |-> NoError, val |-> val, pos |-> pos]

\* sequencing of two steps: an exception of the first propagates
Then(r, rest(_)) == IF r.err # NoError THEN Raise(r.err, r.pos) ELSE rest(r)

\* eat(value); value = None is the default argument
eat(toks, pos, value) ==
    IF peek(toks, pos) = None THEN Raise("SyntaxError", pos)
    ELSE IF value # None /\ peek(toks, pos) # value THEN Raise("SyntaxError", pos)
    ELSE Return(peek(toks, pos), pos + 1)

RECURSIVE expr(_, _), expr_loop(_, _, _), term(_, _), term_loop(_, _, _), factor(_, _)

factor(toks, pos) ==
    IF peek(toks, pos) = None
    THEN Raise("AttributeError", pos)            \* None.isdigit()
    ELSE IF isdigit(peek(toks, pos))
    THEN Then(eat(toks, pos, None), LAMBDA tok : Return(num(int(tok.val)), tok.pos))
    ELSE IF re_match_ident(peek(toks, pos))
    THEN Then(eat(toks, pos, None), LAMBDA tok : Return(var(tok.val), tok.pos))
    ELSE IF peek(toks, pos) = "("
    THEN Then(eat(toks, pos, "("), LAMBDA open :
         Then(expr(toks, open.pos), LAMBDA node :
         Then(eat(toks, node.pos, ")"), LAMBDA close :
         Return(node.val, close.pos))))
    ELSE Raise("SyntaxError", pos)

\* the while loop of term, entered with the accumulated node
term_loop(toks, pos, node) ==
    IF peek(toks, pos) \in {"*", "/"}
    THEN Then(eat(toks, pos, None), LAMBDA op :
         Then(factor(toks, op.pos), LAMBDA right :
         term_loop(toks, right.pos, binop(op.val, node, right.val))))
    ELSE Return(node, pos)

term(toks, pos) ==
    Then(factor(toks, pos), LAMBDA node : term_loop(toks, node.pos, node.val))

\* expr's loop with the operands of the node it builds exchanged
expr_loop_swapped(toks, pos, node) ==
    IF peek(toks, pos) \in {"+", "-"}
    THEN Then(eat(toks, pos, None), LAMBDA op :
         Then(term(toks, op.pos), LAMBDA right :
         expr_loop(toks, right.pos, binop(op.val, right.val, node))))
    ELSE Return(node, pos)

\* the while loop of expr, entered with the accumulated node
expr_loop(toks, pos, node) ==
    IF peek(toks, pos) \in {"+", "-"}
    THEN Then(eat(toks, pos, None), LAMBDA op :
         Then(term(toks, op.pos), LAMBDA right :
         expr_loop(toks, right.pos, binop(op.val, node, right.val))))
    ELSE Return(node, pos)

expr(toks, pos) ==
    Then(term(toks, pos), LAMBDA node : expr_loop(toks, node.pos, node.val))

statement(toks, pos) ==
    IF peek(toks, pos) = "let"
    THEN Then(eat(toks, pos, "let"), LAMBDA kw :
         Then(eat(toks, kw.pos, None), LAMBDA name :
         Then(eat(toks, name.pos, "="), LAMBDA eq :
         Then(expr(toks, eq.pos), LAMBDA e :
         Then(eat(toks, e.pos, ";"), LAMBDA semi :
         Return([tag |-> "assign", name |-> name.val, expr |-> e.val], semi.pos))))))
    ELSE IF peek(toks, pos) = "print"
    THEN Then(eat(toks, pos, "print"), LAMBDA kw :
         Then(eat(toks, kw.pos, "("), LAMBDA open :
         Then(expr(toks, open.pos), LAMBDA e :
         Then(eat(toks, e.pos, ")"), LAMBDA close :
         Then(eat(toks, close.pos, ";"), LAMBDA semi :
         Return([tag |-> "print", expr |-> e.val], semi.pos))))))
    ELSE Raise("SyntaxError", pos)

RECURSIVE parse_loop(_, _, _)
\* the while loop of parse, entered with the statements parsed so far;
\* val is the list parse returns
parse_loop(toks, pos, stmts) ==
    IF peek(toks, pos) # None
    THEN Then(statement(toks, pos), LAMBDA s : parse_loop(toks, s.pos, Append(stmts, s.val)))
    ELSE Return(stmts, pos)

parse(toks) == parse_loop(toks, 0, <<>>)

-----------------------------------------------------------------------------
(* Three address code *)

\* new_temp without the increment
new_temp_stuck(count) == [count |-> count, name |-> "t" \o str(count + 1)]

\* new_temp(): the counter after the call and the name returned
new_temp(count) == [count |-> count + 1, name |-> "t" \o str(count + 1)]

RECURSIVE generate_TAC_expr(_, _, _)
\* generate_TAC_expr(expr, code): [val, code, count], count being temp_count
generate_TAC_expr(e, code, count) ==
    IF e.tag = "num" THEN [val |-> str(e.value), code |-> code, count |-> count]
    ELSE IF e.tag = "var" THEN [val |-> e.name, code |-> code, count |-> count]
    ELSE LET left == generate_TAC_expr(e.left, code, count)
             right == generate_TAC_expr(e.right, left.code, left.count)
             t == new_temp(right.count)
         IN  [val |-> t.name,
              code |-> Append(right.code, <<t.name, "=", left.val, e.op, right.val>>),
              count |-> t.count]

RECURSIVE generate_TAC_loop(_, _, _, _)
\* the for loop of generate_TAC from statement i on: [code, count]
generate_TAC_loop(stmts, i, code, count) ==
    IF i > Len(stmts) THEN [code |-> code, count |-> count]
    ELSE LET stmt == stmts[i]
             r == generate_TAC_expr(stmt.expr, code, count)
         IN  IF stmt.tag = "assign"
             THEN generate_TAC_loop(stmts, i + 1,
                      Append(r.code, <<stmt.name, "=", r.val>>), r.count)
             ELSE generate_TAC_loop(stmts, i + 1,
                      Append(r.code, <<"PRINT", r.val>>), r.count)

generate_TAC(stmts, count) == generate_TAC_loop(stmts, 1, <<>>, count)

-----------------------------------------------------------------------------
(* Assembly code *)

\* x in parts, parts a list
InList(x, parts) == \E i \in 1..Len(parts) : parts[i] = x

\* the two instructions generate_ASM appends for one TAC line
asm_of_line(parts) ==
    IF InList("=", parts) /\ ~InList("PRINT", parts)
    THEN << <<"LOAD">> \o SubSeq(parts, 3, Len(parts)), <<"STORE", parts[1]>> >>
    ELSE IF InList("PRINT", parts)
    THEN << <<"LOAD", parts[2]>>, <<"OUT">> >>
    ELSE <<>>

RECURSIVE generate_ASM_loop(_, _, _)
generate_ASM_loop(lines, i, out) ==
    IF i > Len(lines) THEN out
    ELSE generate_ASM_loop(lines, i + 1, out \o asm_of_line(lines[i]))

generate_ASM(lines) == generate_ASM_loop(lines, 1, <<>>)

-----------------------------------------------------------------------------
(* Interpreter loop of main() *)

\* Python values: int, float (an exact fraction num/den; rounding of
\* floats is not modelled) and the builtin function objects
RECURSIVE gcd(_, _)
gcd(a, b) == IF b = 0 THEN a ELSE gcd(b, a % b)
abs(n) == IF n < 0 THEN -n ELSE n

PyInt(n) == [kind |-> "int", num |-> n, den |-> 1, name |-> ""]
PyFloat(n, d) ==
    LET g == gcd(abs(n), abs(d))
        s == IF d < 0 THEN -1 ELSE 1
    IN  [kind |-> "float", num |-> (s * n) \div g, den |-> (s * d) \div g, name |-> ""]
PyBuiltin(name) == [kind |-> "builtin_function_or_method", num |-> 0, den |-> 1, name |-> name]

\* names eval finds in __builtins__ when memory does not hold them
PyBuiltins == {"abs", "print"}

\* "=" in stmt and "PRINT" in stmt, stmt the line's string: a substring
\* test, true when some word of the line holds the substring
has_eq(word) == word \in {"=", "==", "<=", ">=", "!="}
has_PRINT(word) == word \in {"PRINT"}
EqInStr(stmt) == \E i \in 1..Len(stmt) : has_eq(stmt[i])
PRINTInStr(stmt) == \E i \in 1..Len(stmt) : has_PRINT(stmt[i])

\* stmt.split(" = "): the separator is a word "=" with a word on each side;
\* every store line generate_TAC emits has exactly one, its second word
split_eq(stmt) ==
    LET seps == {i \in 2..(Len(stmt) - 1) : stmt[i] = "="} IN
    IF seps = {2}
    THEN <<SubSeq(stmt, 1, 1), SubSeq(stmt, 3, Len(stmt))>>
    ELSE <<stmt>>

Ok(v) == [exc |-> NoError, val |-> v]
Exc(e) == [exc |-> e, val |-> PyInt(0)]

\* eval of one operand word against memory (the locals)
eval_operand(w, mem) ==
    IF w \in DigitTokens THEN Ok(PyInt(int(w)))
    ELSE IF w \in DOMAIN mem THEN Ok(mem[w])
    ELSE IF w \in PyBuiltins THEN Ok(PyBuiltin(w))
    ELSE Exc("NameError")

\* eval of left op right
eval_binop(l, op, r) ==
    IF l.kind \notin {"int", "float"} \/ r.kind \notin {"int", "float"}
    THEN Exc("TypeError")
    ELSE IF op = "/"
    THEN IF r.num = 0 THEN Exc("ZeroDivisionError")
         ELSE Ok(PyFloat(l.num * r.den, l.den * r.num))
    ELSE LET n == CASE op = "+" -> l.num * r.den + r.num * l.den
                    [] op = "-" -> l.num * r.den - r.num * l.den
                    [] op = "*" -> l.num * r.num
             d == l.den * r.den
         IN  IF l.kind = "int" /\ r.kind = "int" THEN Ok(PyInt(n)) ELSE Ok(PyFloat(n, d))

\* eval(expr, {}, memory), expr the words right of " = "
eval(words, mem) ==
    IF Len(words) = 1 THEN eval_operand(words[1], mem)
    ELSE LET l == eval_operand(words[1], mem)
             r == eval_operand(words[3], mem)
         IN  IF l.exc # NoError THEN l
             ELSE IF r.exc # NoError THEN r
             ELSE eval_binop(l.val, words[2], r.val)

store(mem, k, v) == [n \in DOMAIN mem \cup {k} |-> IF n = k THEN v ELSE mem[n]]
get(mem, k, default) == IF k \in DOMAIN mem THEN mem[k] ELSE default
EmptyDict == [n \in {} |-> PyInt(0)]

-----------------------------------------------------------------------------
(* Inputs *)

\* token lists of any shape, of n tokens
ParseAlphabet == {"let", "print", "x", "5", "=", ";", "(", ")", "+", "*"}
TokenLists(n) == [1..n -> ParseAlphabet]

\* one assignment whose right-hand side is any list of n tokens, and, two
\* tokens longer (room for a parenthesised operand), any list over one
\* operand, one operator of each level and the parentheses
ExprAlphabet == {"a", "2", "+", "-", "*", "/", "(", ")"}
NestingAlphabet == {"a", "-", "*", "(", ")"}
LetList(e) == <<"let", "x", "=">> \o e \o <<";">>
ExprLists(n) == [1..n -> ExprAlphabet] \cup [1..(n + 2) -> NestingAlphabet]

\* programs of whole statements
PoolExprs == {
    <<"5">>, <<"x">>, <<"abs">>, <<"PRINT">>,
    <<"2", "+", "3">>, <<"x", "+", "1">>, <<"4", "/", "2">>,
    <<"t1", "+", "2", "*", "3">>,
    <<"(", "x", "+", "2", ")", "*", "(", "3", "-", "x", ")">> }
PoolNames == {"x", "y"}
PoolStmts ==
    {<<"let", n, "=">> \o e \o <<";">> : n \in PoolNames, e \in PoolExprs}
    \cup {<<"print", "(">> \o e \o <<")", ";">> : e \in PoolExprs}

RECURSIVE Programs(_)
\* the token lists of 1..n pool statements
Programs(n) ==
    IF n = 0 THEN {<<>>}
    ELSE {p \o s : p \in Programs(n - 1), s \in PoolStmts} \cup Programs(n - 1)

-----------------------------------------------------------------------------
(* main() *)

Start(toks) ==
    /\ tokens = toks
    /\ pc = "parse"
    /\ err = NoError
    /\ ast = <<>>
    /\ temp_count = 0
    /\ tac = <<>>
    /\ asm = <<>>
    /\ memory = EmptyDict
    /\ printed = <<>>
    /\ ip = 1
    /\ runs = 1

Init == \E toks \in Programs(MaxStmts) \ {<<>>} : Start(toks)
InitParse == \E n \in 0..MaxTokens : \E toks \in TokenLists(n) : Start(toks)
InitExpr == \E n \in 0..MaxExprLen : \E e \in ExprLists(n) : Start(LetList(e))

\* parser = Parser(tokens); ast = parser.parse()
Parse ==
    /\ pc = "parse"
    /\ LET r == parse(tokens) IN
         /\ err' = r.err
         /\ ast' = IF r.err = NoError THEN r.val ELSE <<>>
         /\ pc' = IF r.err = NoError THEN "tac" ELSE "aborted"
    /\ UNCHANGED <<tokens, temp_count, tac, asm, memory, printed, ip, runs>>

\* tac = generate_TAC(ast)
GenerateTAC ==
    /\ pc = "tac"
    /\ LET r == generate_TAC(ast, temp_count) IN
         /\ tac' = r.code
         /\ temp_count' = r.count
    /\ pc' = "asm"
    /\ UNCHANGED <<tokens, err, ast, asm, memory, printed, ip, runs>>

\* asm = generate_ASM(tac); memory = {}
GenerateASM ==
    /\ pc = "asm"
    /\ asm' = generate_ASM(tac)
    /\ memory' = EmptyDict
    /\ printed' = <<>>
    /\ ip' = 1
    /\ pc' = "run"
    /\ UNCHANGED <<tokens, err, ast, temp_count, tac, runs>>

\* one iteration of "for stmt in tac"
RunStep ==
    /\ pc = "run"
    /\ ip <= Len(tac)
    /\ LET stmt == tac[ip] IN
         IF EqInStr(stmt) /\ ~PRINTInStr(stmt)
         THEN LET parts == split_eq(stmt) IN
              IF Len(parts) # 2
              THEN \* var, expr = ... cannot unpack
                   /\ err' = "ValueError"
                   /\ pc' = "aborted"
                   /\ UNCHANGED <<memory, printed, ip>>
              ELSE LET r == eval(parts[2], memory) IN
                   /\ memory' = store(memory, parts[1][1],
                                      IF r.exc = NoError THEN r.val ELSE PyInt(0))
                   /\ ip' = ip + 1
                   /\ UNCHANGED <<err, pc, printed>>
         ELSE IF PRINTInStr(stmt)
         THEN /\ printed' = Append(printed, get(memory, stmt[2], PyInt(0)))
              /\ ip' = ip + 1
              /\ UNCHANGED <<err, pc, memory>>
         ELSE /\ ip' = ip + 1
              /\ UNCHANGED <<err, pc, memory, printed>>
    /\ UNCHANGED <<tokens, ast, temp_count, tac, asm, runs>>

\* the loop is over: main() returns
RunEnd ==
    /\ pc = "run"
    /\ ip > Len(tac)
    /\ pc' = "done"
    /\ UNCHANGED <<tokens, err, ast, temp_count, tac, asm, memory, printed, ip, runs>>

\* main() is called again in the same process on the same source: the
\* module-level temp_count keeps its value
MainAgain ==
    /\ pc = "done"
    /\ runs < MaxRuns
    /\ runs' = runs + 1
    /\ pc' = "parse"
    /\ err' = NoError
    /\ ast' = <<>>
    /\ tac' = <<>>
    /\ asm' = <<>>
    /\ memory' = EmptyDict
    /\ printed' = <<>>
    /\ ip' = 1
    /\ UNCHANGED <<tokens, temp_count>>

Next == Parse \/ GenerateTAC \/ GenerateASM \/ RunStep \/ RunEnd \/ MainAgain

Spec == Init /\ [][Next]_vars
SpecParse == InitParse /\ [][Next]_vars
SpecExpr == InitExpr /\ [][Next]_vars

-----------------------------------------------------------------------------
(* The grammar of the language, as a definition of derivable token lists  *)
(*   program   := statement*                                              *)
(*   statement := 'let' IDENT '=' expr ';' | 'print' '(' expr ')' ';'     *)
(*   expr      := term (('+'|'-') term)*                                  *)
(*   term      := factor (('*'|'/') factor)*                              *)
(*   factor    := INTEGER | IDENT | '(' expr ')'                          *)

IsINTEGER(tok) == tok \in DigitTokens
IsIDENT(tok) == tok \in IdentTokens
Before(s, i) == SubSeq(s, 1, i - 1)
After(s, i) == SubSeq(s, i + 1, Len(s))
Inner(s) == SubSeq(s, 2, Len(s) - 1)

RECURSIVE IsExpr(_), IsTerm(_), IsFactor(_)
IsFactor(s) ==
    \/ Len(s) = 1 /\ (IsINTEGER(s[1]) \/ IsIDENT(s[1]))
    \/ Len(s) >= 3 /\ s[1] = "(" /\ s[Len(s)] = ")" /\ IsExpr(Inner(s))
TermSplit(s, i) == s[i] \in {"*", "/"} /\ IsTerm(Before(s, i)) /\ IsFactor(After(s, i))
IsTerm(s) == IsFactor(s) \/ \E i \in 2..(Len(s) - 1) : TermSplit(s, i)
ExprSplit(s, i) == s[i] \in {"+", "-"} /\ IsExpr(Before(s, i)) /\ IsTerm(After(s, i))
IsExpr(s) == IsTerm(s) \/ \E i \in 2..(Len(s) - 1) : ExprSplit(s, i)

IsStatement(s) ==
    \/ /\ Len(s) >= 5
       /\ s[1] = "let" /\ IsIDENT(s[2]) /\ s[3] = "=" /\ s[Len(s)] = ";"
       /\ IsExpr(SubSeq(s, 4, Len(s) - 1))
    \/ /\ Len(s) >= 5
       /\ s[1] = "print" /\ s[2] = "(" /\ s[Len(s) - 1] = ")" /\ s[Len(s)] = ";"
       /\ IsExpr(SubSeq(s, 3, Len(s) - 2))

RECURSIVE IsProgram(_)
IsProgram(s) ==
    \/ s = <<>>
    \/ \E i \in 1..Len(s) : IsStatement(SubSeq(s, 1, i)) /\ IsProgram(After(s, i))

\* the tree the grammar gives a derivable expression: the operands of an
\* operator are the expr (term) to its left and the term (factor) to its right
RECURSIVE ExprTree(_), TermTree(_), FactorTree(_)
FactorTree(s) ==
    IF Len(s) = 1
    THEN IF IsINTEGER(s[1]) THEN num(int(s[1])) ELSE var(s[1])
    ELSE ExprTree(Inner(s))
TermTree(s) ==
    IF IsFactor(s) THEN FactorTree(s)
    ELSE LET i == CHOOSE j \in 2..(Len(s) - 1) : TermSplit(s, j) IN
         binop(s[i], TermTree(Before(s, i)), FactorTree(After(s, i)))
ExprTree(s) ==
    IF IsTerm(s) THEN TermTree(s)
    ELSE LET i == CHOOSE j \in 2..(Len(s) - 1) : ExprSplit(s, j) IN
         binop(s[i], ExprTree(Before(s, i)), TermTree(After(s, i)))

RECURSIVE Closers(_)
Closers(k) == IF k = 0 THEN <<>> ELSE <<")">> \o Closers(k - 1)
\* p begins an expression: an operand, if one is due, and the closing
\* parentheses still owed complete it
IsExprPrefix(p) ==
    \E k \in 0..Len(p) : \E operand \in {<<>>, <<"x">>} : IsExpr(p \o operand \o Closers(k))

\* s is the beginning of a statement that still requires a token
IsOpenStatement(s) ==
    \/ s = <<"let">>
    \/ Len(s) = 2 /\ s[1] = "let" /\ IsIDENT(s[2])
    \/ /\ Len(s) >= 3 /\ s[1] = "let" /\ IsIDENT(s[2]) /\ s[3] = "="
       /\ (Len(s) = 3 \/ IsExprPrefix(SubSeq(s, 4, Len(s))))
    \/ s = <<"print">>
    \/ /\ Len(s) >= 2 /\ s[1] = "print" /\ s[2] = "("
       /\ \/ Len(s) = 2
          \/ IsExprPrefix(SubSeq(s, 3, Len(s)))
          \/ s[Len(s)] = ")" /\ IsExpr(SubSeq(s, 3, Len(s) - 1))

\* complete statements followed by the beginning of one more
IsTruncatedProgram(s) ==
    \E i \in 0..(Len(s) - 1) : IsProgram(SubSeq(s, 1, i)) /\ IsOpenStatement(After(s, i))

-----------------------------------------------------------------------------
(* Claims about the parser *)

Parsed == pc \in {"tac", "asm", "run", "done"}
ParseEnded == pc # "parse"

\* C2: a token list that ends where a rule still requires a token makes
\* parse fail with a SyntaxError and with no other exception
C2_TruncatedInputRaisesSyntaxError ==
    (ParseEnded /\ IsTruncatedProgram(tokens)) => (pc = "aborted" /\ err = "SyntaxError")

\* some token of s stands where the grammar requires a different one
HasWrongToken(s) == ~IsProgram(s) /\ ~IsTruncatedProgram(s)

\* C3: parse returns an AST only for token lists the grammar derives, and a
\* token standing where the grammar requires a different one (after let, a
\* token that is no identifier) makes parse raise a SyntaxError
C3_ParseReturnsOnlyForDerivable ==
    /\ Parsed => IsProgram(tokens)
    /\ (ParseEnded /\ HasWrongToken(tokens)) => (pc = "aborted" /\ err = "SyntaxError")

ExprOf(toks) == SubSeq(toks, 4, Len(toks) - 1)

\* C8: for let x = e ; with e a well-formed expression, parse returns the
\* one assignment whose expression is the tree of the grammar: same-level
\* operators associate to the left, * and / bind tighter than + and -, a
\* parenthesised expression is one factor
C8_ParseBuildsGrammarTree ==
    (ParseEnded /\ IsExpr(ExprOf(tokens)))
        => /\ Parsed
           /\ ast = <<[tag |-> "assign", name |-> "x", expr |-> ExprTree(ExprOf(tokens))]>>

\* a - ( a - a ) was parsed: the parenthesised subtraction is one factor,
\* the right operand of the first subtraction
C8_Witness ==
    /\ pc = "tac"
    /\ ExprOf(tokens) = <<"a", "-", "(", "a", "-", "a", ")">>
    /\ ast[1].expr = binop("-", var("a"), binop("-", var("a"), var("a")))

-----------------------------------------------------------------------------
(* Claims about the TAC and ASM generators *)

Generated == pc \in {"asm", "run", "done"}
Assembled == pc \in {"run", "done"}

\* C1: generate_TAC returns for an AST what it returns in a fresh process
\* (temp_count = 0), whatever calls came before in this process
C1_TempNumberingDoesNotLeak ==
    Generated => tac = generate_TAC(ast, 0).code

\* the kinds of TAC line, by shape
IsStoreLine(line) == Len(line) >= 3 /\ line[2] = "="
IsComputeLine(line) == Len(line) = 5 /\ line[2] = "="
IsPrintLine(line) == Len(line) = 2 /\ line[1] = "PRINT"

\* C7: the i-th TAC line becomes the ASM instructions 2i-1 and 2i (counting
\* from 1): LOAD rhs, STORE d for a line d = rhs and LOAD v, OUT for PRINT v
C7_AsmIsTwoPerTacLine ==
    Assembled =>
        /\ Len(asm) = 2 * Len(tac)
        /\ \A i \in 1..Len(tac) :
             /\ IsStoreLine(tac[i]) =>
                  /\ asm[2 * i - 1] = <<"LOAD">> \o SubSeq(tac[i], 3, Len(tac[i]))
                  /\ asm[2 * i] = <<"STORE", tac[i][1]>>
             /\ IsPrintLine(tac[i]) =>
                  /\ asm[2 * i - 1] = <<"LOAD", tac[i][2]>>
                  /\ asm[2 * i] = <<"OUT">>

RECURSIVE NamesRead(_)
\* the variable names an expression reads
NamesRead(e) ==
    IF e.tag = "var" THEN {e.name}
    ELSE IF e.tag = "binop" THEN NamesRead(e.left) \cup NamesRead(e.right)
    ELSE {}
\* the names the source program assigns or reads
SourceNames(stmts) ==
    UNION {NamesRead(stmts[i].expr) : i \in 1..Len(stmts)}
    \cup {stmts[i].name : i \in {j \in 1..Len(stmts) : stmts[j].tag = "assign"}}
ComputeDests(code) == {code[i][1] : i \in {j \in 1..Len(code) : IsComputeLine(code[j])}}

\* C9: no temporary generate_TAC emits is a name of the source program
C9_TempsAreNotSourceNames ==
    Generated => ComputeDests(tac) \cap SourceNames(ast) = {}

RECURSIVE Size(_)
\* the number of binary-operation nodes of an expression
Size(e) == IF e.tag = "binop" THEN Size(e.left) + Size(e.right) + 1 ELSE 0

RECURSIVE BlockStart(_, _)
\* where statement i's block begins when each statement's block holds one
\* line per binary operation and one more
BlockStart(stmts, i) ==
    IF i = 1 THEN 1 ELSE BlockStart(stmts, i - 1) + Size(stmts[i - 1].expr) + 1

\* the operand text of e, whose block ends right before line `next`
OperandOf(e, code, next) ==
    IF e.tag = "num" THEN str(e.value)
    ELSE IF e.tag = "var" THEN e.name
    ELSE code[next - 1][1]

RECURSIVE ExprLaidOut(_, _, _)
\* e's block begins at line `first`: the left subtree's block, then the right
\* subtree's, then the node's own Compute; a leaf has no line
ExprLaidOut(e, code, first) ==
    e.tag = "binop" =>
        LET mid == first + Size(e.left)
            own == mid + Size(e.right)
        IN  /\ ExprLaidOut(e.left, code, first)
            /\ ExprLaidOut(e.right, code, mid)
            /\ code[own] = <<code[own][1], "=", OperandOf(e.left, code, mid),
                             e.op, OperandOf(e.right, code, own)>>

StatementLaidOut(stmt, code, first) ==
    LET last == first + Size(stmt.expr) IN
    /\ ExprLaidOut(stmt.expr, code, first)
    /\ code[last] = IF stmt.tag = "assign"
                    THEN <<stmt.name, "=", OperandOf(stmt.expr, code, last)>>
                    ELSE <<"PRINT", OperandOf(stmt.expr, code, last)>>

\* the lines that are some node's Compute: all but each block's last
ComputeLines(stmts) ==
    (1..(BlockStart(stmts, Len(stmts) + 1) - 1))
        \ {BlockStart(stmts, i + 1) - 1 : i \in 1..Len(stmts)}

\* C10: each statement's block, in source order, is one Compute per binary
\* operation (left subtree, right subtree, then the node), then its one
\* Assign or Print; leaves emit nothing; no two Computes share a temporary
C10_TacLayout ==
    Generated =>
        /\ Len(tac) = BlockStart(ast, Len(ast) + 1) - 1
        /\ \A i \in 1..Len(ast) : StatementLaidOut(ast[i], tac, BlockStart(ast, i))
        /\ \A i, j \in ComputeLines(ast) : i # j => tac[i][1] # tac[j][1]

\* a second statement whose two operands are both binary operations was
\* lowered on the second run: left block, right block, then the product
C10_Witness ==
    /\ pc = "asm"
    /\ runs = 2
    /\ Len(ast) = 2
    /\ ast[2].expr.tag = "binop"
    /\ Size(ast[2].expr.left) = 1
    /\ Size(ast[2].expr.right) = 1
    /\ Len(tac) = Size(ast[1].expr) + 5

-----------------------------------------------------------------------------
(* Claims about the interpreter loop *)

\* the language's meaning of a program: integers, statements in order
RECURSIVE Value(_, _)
Undefined == "undefined"
\* the value of e under env, or Undefined (a name not yet assigned, a
\* division by zero)
Value(e, env) ==
    IF e.tag = "num" THEN [ok |-> TRUE, v |-> e.value]
    ELSE IF e.tag = "var"
    THEN IF e.name \in DOMAIN env THEN [ok |-> TRUE, v |-> env[e.name]]
         ELSE [ok |-> FALSE, v |-> 0]
    ELSE LET l == Value(e.left, env)
             r == Value(e.right, env)
         IN  IF ~l.ok \/ ~r.ok \/ (e.op = "/" /\ r.v = 0) THEN [ok |-> FALSE, v |-> 0]
             ELSE [ok |-> TRUE,
                   v |-> CASE e.op = "+" -> l.v + r.v
                           [] e.op = "-" -> l.v - r.v
                           [] e.op = "*" -> l.v * r.v
                           [] e.op = "/" -> l.v \div r.v]

RECURSIVE Meaning(_, _, _, _)
\* [ok, env, out] after statements i.. of stmts
Meaning(stmts, i, env, out) ==
    IF i > Len(stmts) THEN [ok |-> TRUE, env |-> env, out |-> out]
    ELSE LET v == Value(stmts[i].expr, env) IN
         IF ~v.ok THEN [ok |-> FALSE, env |-> env, out |-> out]
         ELSE IF stmts[i].tag = "assign"
         THEN Meaning(stmts, i + 1,
                      [n \in DOMAIN env \cup {stmts[i].name} |->
                          IF n = stmts[i].name THEN v.v ELSE env[n]], out)
         ELSE Meaning(stmts, i + 1, env, Append(out, v.v))

MeaningOf(stmts) == Meaning(stmts, 1, [n \in {} |-> 0], <<>>)

\* C4: for a program that reads no variable before assigning it and divides
\* by no zero, the loop prints the value of each print statement's
\* expression, in order, and leaves each assigned variable at its last value
C4_RunPrintsExpressionValues ==
    (pc = "done" /\ MeaningOf(ast).ok) =>
        LET m == MeaningOf(ast) IN
        /\ printed = [i \in 1..Len(m.out) |-> PyInt(m.out[i])]
        /\ \A n \in DOMAIN m.env : n \in DOMAIN memory /\ memory[n] = PyInt(m.env[n])

\* the operand words of a store line's right-hand side
Operands(line) == {line[i] : i \in {3, Len(line)}}
AssignedSomewhere(name) == \E i \in 1..Len(tac) : IsStoreLine(tac[i]) /\ tac[i][1] = name
ReadsUnassigned(line) ==
    \E w \in Operands(line) : w \notin DigitTokens /\ ~AssignedSomewhere(w)

\* C5: the loop never aborts, and right after a store line that names an
\* operand assigned nowhere in the program its destination holds 0
C5_EvaluationErrorsStoreZero ==
    /\ pc = "aborted" => err \in {"SyntaxError", "AttributeError"}   \* raised by parse
    /\ (pc \in {"run", "done"} /\ ip > 1 /\ IsStoreLine(tac[ip - 1]) /\ ReadsUnassigned(tac[ip - 1]))
           => /\ tac[ip - 1][1] \in DOMAIN memory
              /\ memory[tac[ip - 1][1]] = PyInt(0)

\* C6: every value in memory and every printed value is an integer
C6_ValuesAreIntegers ==
    /\ \A n \in DOMAIN memory : memory[n].kind = "int"
    /\ \A i \in 1..Len(printed) : printed[i].kind = "int"

====
